---- MODULE Spec2Model ----
(***************************************************************************)
(* Note-Forge: the timer-driven playback loops of the Sequence Players     *)
(* (RandomMode, ProgressionsMode, PatternsMode), the AudioEngine they      *)
(* render through and the tab switch of MusicalNoteGenerator.              *)
(*                                                                         *)
(* Time is the audio clock (audioContext.currentTime) counted in units of  *)
(* 1/TicksPerSecond seconds, so that every interval the code computes      *)
(* from the modelled BPM values is an integer.  The clock is kept          *)
(* relative: every stored timestamp is an offset from the current clock    *)
(* value, so "now" is 0 and the passing of d units subtracts d from every  *)
(* stored timestamp.  A pending setTimeout is a record of the set timers;  *)
(* it carries the closure of its callback: the local cursor of the         *)
(* startPlayback call that created the chain and the settings object of    *)
(* the render that call belonged to.                                       *)
(***************************************************************************)
EXTENDS Integers, FiniteSets, Sequences, TLC

\* ------------------------------------------------------------------ bounds
MaxTimers == 3          \* pending setTimeout callbacks alive at once
MaxUserActions == 3     \* user interface events in one behaviour of Spec
MaxSettingChanges == 2  \* of these, changes of a setting other than play/stop
MaxControlActions == 4  \* user interface events in one behaviour of SpecControl
MaxControlChanges == 1  \* of these, changes of the cycle start
MaxLateCallbacks == 1   \* timer callbacks that run later than they are due
MaxImportLen == 2       \* longest sequence of an imported settings file
MaxTrackedTick == 4     \* ticks of a loop whose distance from its start is recorded
MaxImportActions == 3    \* user interface events of one behaviour of SpecImport
MaxImportChanges == 2    \* of these, imports of a settings file
MaxTrackerCalls == 3     \* tracked renders and crossfades in one behaviour of SpecTracker
MaxAudioTime == 1200     \* the audio clock of SpecTracker runs to 1 s
MaxWorkerCalls == 4      \* start() and stop() calls in one behaviour of SpecWorker
MaxEngineCalls == 3      \* calls of AudioEngine operations in one behaviour of SpecEngine
MaxSwingActions == 3    \* user interface events in one behaviour of SpecSwing
MaxSwingChanges == 1    \* of these, changes of swing, tempo or subdivision
MaxKeyActions == 3      \* user interface events in one behaviour of SpecKeys

\* --------------------------------------------------------- clock and units
TicksPerSecond == 12 * 100  \* 1/3 of a 1/8 note and 5 ms are both whole units
Ms(n) == (n * TicksPerSecond) \div 1000

Max(a, b) == IF a >= b THEN a ELSE b

\* lateness of a timer callback against its due time (host scheduling variance)
Lateness == {0, Ms(20)}

\* ------------------------------------------------------------- the players
\* "random" is RandomMode as of unnamed/part_008 (ref based), "randomV1" is
\* RandomMode as of mode-random.tsx (restart based).
Players == {"random", "randomV1", "progressions", "patterns"}
RefPlayers == {"random", "patterns"}
RestartPlayers == {"randomV1", "progressions"}
Modes == Players \cup {"glossary"}
\* what schedules sound: the players and the metronome of the page
Schedulers == Players \cup {"metronome"}

Subdivisions == {"1", "2", "3", "4"}
BpmValues == {120, 240}
WaveTypes == {"sine", "piano"}
NoChord == -1            \* settings.invalidChord when every note name resolves
GeneratedLen == 4        \* notes of a generated sequence, chords of a progression
SwingValues == {50, 67}
CycleStarts == 0..(GeneratedLen - 1)

NoTimer == 0            \* playbackTimeoutRef.current = null
Fired == -1             \* handle of a timeout that has already run

VARIABLES
  audioContext,              \* TRUE once useAudio has created the context
  currentMode,               \* settings.currentMode
  settings,                  \* settings.<mode>Mode of every player
  waveType,                  \* settings.globalAudio.waveType
  currentWaveTypeRef,
  metronomeActive,           \* settings.globalMetronome.isActive
  currentBpmRef, currentSubdivisionRef, currentSwingRef,
  shouldContinuePlaybackRef,
  playbackTimeoutRef,
  metronomeIntervalRef,
  currentNoteIndex,          \* the React state shown by the component
  timers,                    \* pending setTimeout callbacks
  oscillators,               \* oscillators started and not yet ended
  engineIsPlaying,           \* AudioEngine.isPlaying of every engine
  lastEvent, prevEvent,      \* the last two events each player scheduled
  audioEngine,               \* one AudioEngine: its clock, voice tracker,
                             \* scheduler fields and timer worker
  threw,                     \* a callback of the player raised a TypeError
  lastOp,                    \* the handler that ran last: its name, the one
                             \* before it, what it stopped, cancelled, played
  actionsLeft,               \* user interface events the behaviour may still take
  changesLeft,               \* of these, changes of a setting other than play/stop
  latesLeft                  \* timer callbacks that may still run late

vars == <<audioContext, currentMode, settings, waveType,
          currentWaveTypeRef, metronomeActive, currentBpmRef,
          currentSubdivisionRef, currentSwingRef, shouldContinuePlaybackRef,
          playbackTimeoutRef, metronomeIntervalRef, currentNoteIndex, timers,
          oscillators, engineIsPlaying, audioEngine, lastEvent, prevEvent,
          threw, lastOp, actionsLeft, changesLeft, latesLeft>>

\* The whole state as one record, so that a handler is a function from state
\* to state and the calls it makes compose in program order.
State ==
  [now |-> 0, audioContext |-> audioContext, currentMode |-> currentMode,
   settings |-> settings, waveType |-> waveType,
   currentWaveTypeRef |-> currentWaveTypeRef,
   metronomeActive |-> metronomeActive, currentBpmRef |-> currentBpmRef,
   currentSubdivisionRef |-> currentSubdivisionRef,
   currentSwingRef |-> currentSwingRef,
   shouldContinuePlaybackRef |-> shouldContinuePlaybackRef,
   playbackTimeoutRef |-> playbackTimeoutRef,
   metronomeIntervalRef |-> metronomeIntervalRef,
   currentNoteIndex |-> currentNoteIndex, timers |-> timers,
   oscillators |-> oscillators, engineIsPlaying |-> engineIsPlaying,
   audioEngine |-> audioEngine,
   lastEvent |-> lastEvent, prevEvent |-> prevEvent,
   threw |-> threw, lastOp |-> lastOp, stopped |-> {}, stoppedPlayers |-> {},
   cancelled |-> {}, played |-> {}, unresolved |-> {}, overflow |-> FALSE]

Commit(s, op, p) ==
  /\ ~s.overflow
  /\ audioContext' = s.audioContext
  /\ currentMode' = s.currentMode
  /\ settings' = s.settings
  /\ waveType' = s.waveType
  /\ currentWaveTypeRef' = s.currentWaveTypeRef
  /\ metronomeActive' = s.metronomeActive
  /\ currentBpmRef' = s.currentBpmRef
  /\ currentSubdivisionRef' = s.currentSubdivisionRef
  /\ currentSwingRef' = s.currentSwingRef
  /\ shouldContinuePlaybackRef' = s.shouldContinuePlaybackRef
  /\ playbackTimeoutRef' = s.playbackTimeoutRef
  /\ metronomeIntervalRef' = s.metronomeIntervalRef
  /\ currentNoteIndex' = s.currentNoteIndex
  /\ timers' = s.timers
  /\ oscillators' = s.oscillators
  /\ engineIsPlaying' = s.engineIsPlaying
  /\ audioEngine' = s.audioEngine
  /\ lastEvent' = s.lastEvent
  /\ prevEvent' = s.prevEvent
  /\ threw' = s.threw
  /\ lastOp' = [op |-> op, p |-> p, prev |-> s.lastOp.op,
                stopped |-> s.stopped, stoppedPlayers |-> s.stoppedPlayers,
                cancelled |-> s.cancelled, played |-> s.played,
                unresolved |-> s.unresolved]

\* ------------------------------------------------------------ pure helpers
getRepetitionsPerBar(subdivision) ==
  CASE subdivision = "1" -> 4
    [] subdivision = "2" -> 8
    [] subdivision = "3" -> 12
    [] subdivision = "4" -> 16
    [] OTHER -> 4

\* an interval of one beat whatever the subdivision
noteIntervalPerBeat(bpm, repetitionsPerBar) == (60 * TicksPerSecond) \div bpm

\* (60 / bpm) / (repetitionsPerBar / 4), in clock units
noteInterval(bpm, repetitionsPerBar) ==
  ((60 * TicksPerSecond) \div bpm) \div (repetitionsPerBar \div 4)

\* a swing delay given to every tick, on the beat or off it
getSwingDelayEveryTick(noteIndex, swingEnabled, eighthNoteInterval) ==
  IF ~swingEnabled THEN 0 ELSE eighthNoteInterval \div 3

getSwingDelay(noteIndex, swingEnabled, eighthNoteInterval) ==
  IF ~swingEnabled THEN 0
  ELSE IF noteIndex % 2 = 1 THEN eighthNoteInterval \div 3
  ELSE 0

\* AudioEngine.applySwing is called by mode-random.tsx but not defined in
\* audio-engine.ts: the interval to the next tick, the off-beat delay added.
applySwing(noteIndex, swing, interval) ==
  interval + getSwingDelay(noteIndex, swing # 50, interval)

\* ------------------------------------------------- timers and the engine
\* what the callbacks created during a render close over: the settings prop
\* of that render and the audioContext the render received
RenderClosure(s, st) ==
  [isPlaying |-> st.isPlaying, bpm |-> st.bpm, subdivision |-> st.subdivision,
   swing |-> st.swing, swingEnabled |-> st.swingEnabled, seqLen |-> st.seqLen,
   cycleStart |-> st.cycleStart, invalidChord |-> st.invalidChord,
   invalidTone |-> st.invalidTone, audioContext |-> s.audioContext]

SettingsOf(cap) ==
  [isPlaying |-> cap.isPlaying, bpm |-> cap.bpm, subdivision |-> cap.subdivision,
   swing |-> cap.swing, swingEnabled |-> cap.swingEnabled, seqLen |-> cap.seqLen,
   cycleStart |-> cap.cycleStart, invalidChord |-> cap.invalidChord,
   invalidTone |-> cap.invalidTone]

\* k counts the ticks of the loop and off is nextNoteTime less the
\* nextNoteTime the loop started with, both up to tick MaxTrackedTick
Closure(kind, p, idx, rep, next, cap) ==
  [kind |-> kind, p |-> p, idx |-> idx, rep |-> rep, next |-> next, cap |-> cap,
   k |-> 0, off |-> 0]

FreeIds(s) == {i \in 1..MaxTimers : \A t \in s.timers : t.id # i}
NewId(s) == IF FreeIds(s) = {} THEN NoTimer
            ELSE CHOOSE i \in FreeIds(s) : \A j \in FreeIds(s) : i <= j

\* setTimeout(callback, delay): the callback with its closure c becomes pending
SetTimeout(s, c, delay) ==
  IF FreeIds(s) = {} THEN [s EXCEPT !.overflow = TRUE]
  ELSE [s EXCEPT !.timers = @ \cup
          {[id |-> NewId(s), kind |-> c.kind, p |-> c.p, due |-> s.now + delay,
            idx |-> c.idx, rep |-> c.rep, next |-> c.next, cap |-> c.cap,
            k |-> c.k, off |-> c.off]}]

\* clearTimeout(id); the owners of the callbacks it cancels are remembered
ClearTimeout(s, id) ==
  [s EXCEPT !.timers = {t \in @ : t.id # id},
            !.cancelled = @ \cup {t.p : t \in {u \in s.timers : u.id = id}}]

\* AudioEngine.playNote -> createOscillator: an oscillator from time to
\* time + duration; nothing without an audio context
playNote(s, p, duration, startTime, wave) ==
  IF ~s.audioContext THEN s
  ELSE LET time == IF startTime = 0 THEN s.now ELSE startTime
       IN [s EXCEPT !.oscillators = @ \cup
             {[engine |-> p, start |-> time, stop |-> time + duration,
               wave |-> wave]}]

\* AudioEngine.createPianoSound
createPianoSound(s, p, startTime, duration) ==
  IF ~s.audioContext THEN s
  ELSE [s EXCEPT !.oscillators = @ \cup
          {[engine |-> p, start |-> startTime, stop |-> startTime + duration,
            wave |-> "piano"]}]

\* AudioEngine.createOscillator: throws when there is no audio context
createOscillator(s, p, startTime, duration, wave) ==
  IF ~s.audioContext THEN [s EXCEPT !.threw[p] = TRUE]
  ELSE IF wave = "piano" THEN createPianoSound(s, p, startTime, duration)
  ELSE [s EXCEPT !.oscillators = @ \cup
          {[engine |-> p, start |-> startTime, stop |-> startTime + duration,
            wave |-> wave]}]

\* AudioEngine.createClick
createClick(s, p, isAccent, startTime) ==
  IF ~s.audioContext THEN s
  ELSE createOscillator(s, p, startTime,
                        IF isAccent THEN Ms(100) ELSE Ms(50), "sine")

\* AudioEngine.crossfadeToWaveType: the preview voice in the new wave type
crossfadeToWaveType(s, p, wave) ==
  IF ~s.audioContext THEN s
  ELSE [s EXCEPT !.oscillators =
          {o \in @ : ~(o.engine = p /\ o.wave = "preview")} \cup
          {[engine |-> p, start |-> s.now, stop |-> s.now + TicksPerSecond,
            wave |-> "preview"]}]

\* AudioEngine.start
EngineStart(s, p) ==
  IF ~s.audioContext THEN s ELSE [s EXCEPT !.engineIsPlaying[p] = TRUE]

\* AudioEngine.stop: isPlaying = false, "stop" to the timer worker
EngineStop(s, p) ==
  [s EXCEPT !.engineIsPlaying[p] = FALSE, !.stopped = @ \cup {p}]

\* ------------------------------------------- one AudioEngine and its voices
\* The engine of this part keeps an absolute audio clock (currentTime).  A
\* voice is what one render leaves in the audio graph: its oscillators with
\* their stop time and the automation events of its master gain.  Gain
\* values are counted in thousandths.  activeOscillators maps a track key to
\* the voice registered under it and the cleanupTimeout stored with it.
TrackKeys == {"preview"}
NoVoice == 0
DefaultGain == 1000      \* the value of a GainNode with no automation event

NoEntry == [voice |-> NoVoice, cleanupTimeout |-> NoTimer]

NewEngine ==
  [currentTime |-> 0,
   voices |-> {},
   activeOscillators |-> [k \in TrackKeys |-> NoEntry],
   cleanupTimers |-> {},
   lastRegistration |-> [voice |-> NoVoice, replaced |-> NoVoice,
                         running |-> FALSE],
   lastCleanup |-> [owner |-> NoVoice, removed |-> NoVoice],
   lastCrossfade |-> [old |-> NoVoice, new |-> NoVoice, at |-> 0, fade |-> 0],
   \* the look-ahead scheduler and the timer worker
   isPlaying |-> FALSE, tempo |-> 120, nextNoteTime |-> 0, currentBeat |-> 0,
   timerID |-> NoTimer,        \* timerID of the worker, NoTimer for null
   intervals |-> {},           \* the setInterval timers alive in the worker
   tickAfterStop |-> FALSE,    \* the worker posted 'tick' after a "stop"
   lastTick |-> [at |-> 0, from |-> 0, interval |-> 0, scheduled |-> <<>>]]

GainEvent(time, value, ramp) == [time |-> time, value |-> value, ramp |-> ramp]

\* AudioParam: the value at time t of the automation events env, which are
\* in time order.  A ramp runs from the event before it to its own time and
\* value; an exponential ramp is taken along the straight line between the
\* same end points, and holds its start value when that is 0.
ValueAt(env, t) ==
  LET before == {i \in DOMAIN env : env[i].time <= t}
  IN IF before = {} THEN DefaultGain
     ELSE LET i == CHOOSE j \in before : \A k \in before : k <= j
              a == env[i]
          IN IF i = Len(env) \/ env[i + 1].ramp = "set" THEN a.value
             ELSE LET b == env[i + 1]
                  IN IF b.ramp = "exponential" /\ a.value = 0 THEN 0
                     ELSE IF b.time = a.time THEN b.value
                     ELSE a.value
                          + ((b.value - a.value) * (t - a.time))
                              \div (b.time - a.time)

\* AudioParam.cancelScheduledValues
cancelScheduledValues(env, t) == SelectSeq(env, LAMBDA ev : ev.time < t)

VoiceOf(e, id) == CHOOSE v \in e.voices : v.id = id

NewVoiceId(e) == Cardinality(e.voices) + 1
NewCleanupId(e) ==
  CHOOSE i \in 1..(Cardinality(e.cleanupTimers) + 1) :
    \A c \in e.cleanupTimers : c.id # i

\* the envelope of createOscillator and of createPianoSound
PlainEnvelope(wave, startTime, duration) ==
  IF wave = "piano"
  THEN <<GainEvent(startTime, 0, "set"),
         GainEvent(startTime + Ms(20), 400, "linear"),
         GainEvent(startTime + Ms(100), 200, "exponential"),
         GainEvent(startTime + duration, 1, "exponential")>>
  ELSE <<GainEvent(startTime, 0, "set"),
         GainEvent(startTime + Ms(10), 300, "linear"),
         GainEvent(startTime + duration, 1, "exponential")>>

\* a crossfade voice with the attack and decay of a plain voice
CrossfadeEnvelopePlain(wave, startTime, duration, crossfadeDuration) ==
  PlainEnvelope(wave, startTime, duration)

\* the envelope of createOscillatorWithCrossfade and of
\* createPianoSoundWithCrossfade
CrossfadeEnvelope(wave, startTime, duration, crossfadeDuration) ==
  IF wave = "piano"
  THEN <<GainEvent(startTime, 0, "set"),
         GainEvent(startTime + crossfadeDuration, 400, "linear"),
         GainEvent(startTime + Ms(100) + crossfadeDuration, 200, "exponential"),
         GainEvent(startTime + duration, 1, "exponential")>>
  ELSE <<GainEvent(startTime, 0, "set"),
         GainEvent(startTime + crossfadeDuration, 300, "linear"),
         GainEvent(startTime + duration, 1, "exponential")>>

\* activeOscillators.set(trackKey, ...); recorded: the voice the entry held
\* and whether its oscillators were still to run when it was overwritten
Register(e, id, trackKey, cleanupTimeout) ==
  LET old == e.activeOscillators[trackKey].voice
  IN [e EXCEPT
        !.activeOscillators[trackKey] =
           [voice |-> id, cleanupTimeout |-> cleanupTimeout],
        !.lastRegistration =
           [voice |-> id, replaced |-> old,
            running |-> old # NoVoice /\ VoiceOf(e, old).stop > e.currentTime]]

\* createOscillator and createPianoSound with a trackKey: the entry is set
\* and a cleanup timer armed whose handle is not kept
CreateTracked(e, startTime, duration, wave, trackKey) ==
  LET id == NewVoiceId(e)
      v == [id |-> id, key |-> trackKey, wave |-> wave, start |-> startTime,
            stop |-> startTime + duration,
            gain |-> PlainEnvelope(wave, startTime, duration)]
      e1 == [e EXCEPT !.voices = @ \cup {v}]
      e2 == Register(e1, id, trackKey, NoTimer)
  IN [e2 EXCEPT !.cleanupTimers = @ \cup
        {[id |-> NewCleanupId(e), key |-> trackKey, owner |-> id,
          due |-> e.currentTime + ((startTime - e.currentTime) + duration)]}]

\* AudioEngine.playNote with a trackKey
PlayNoteTracked(e, duration, startTime, wave, trackKey) ==
  LET time == IF startTime = 0 THEN e.currentTime ELSE startTime
  IN CreateTracked(e, time, duration, wave, trackKey)

\* createOscillatorWithCrossfade and createPianoSoundWithCrossfade
CreateWithCrossfade(e, startTime, duration, wave, crossfadeDuration, trackKey) ==
  LET id == NewVoiceId(e)
      timer == NewCleanupId(e)
      v == [id |-> id, key |-> trackKey, wave |-> wave, start |-> startTime,
            stop |-> startTime + duration,
            gain |-> CrossfadeEnvelope(wave, startTime, duration,
                                       crossfadeDuration)]
      e1 == [e EXCEPT !.voices = @ \cup {v},
                      !.cleanupTimers = @ \cup
                         {[id |-> timer, key |-> trackKey, owner |-> id,
                           due |-> e.currentTime + duration]}]
  IN Register(e1, id, trackKey, timer)

\* the fade out of the voice held under 'preview'
FadeOut(e, old, crossfadeDuration) ==
  LET currentTime == e.currentTime
      entry == e.activeOscillators["preview"]
      v == VoiceOf(e, old)
      currentGain == ValueAt(v.gain, currentTime)
      held == Append(cancelScheduledValues(v.gain, currentTime),
                     GainEvent(currentTime, currentGain, "set"))
      faded == IF currentGain > 1
               THEN Append(held, GainEvent(currentTime + crossfadeDuration, 1,
                                           "exponential"))
               ELSE Append(held, GainEvent(currentTime + crossfadeDuration, 0,
                                           "linear"))
      \* stop() of an oscillator that has ended changes nothing
      v1 == [v EXCEPT !.gain = faded,
                      !.stop = IF @ <= currentTime THEN @
                               ELSE currentTime + crossfadeDuration]
  IN [e EXCEPT
        !.cleanupTimers = {c \in @ : c.id # entry.cleanupTimeout},
        !.voices = (@ \ {v}) \cup {v1},
        !.activeOscillators["preview"] = NoEntry]

\* AudioEngine.crossfadeToWaveType, the audio context existing
CrossfadeTo(e, wave, crossfadeDuration) ==
  LET old == e.activeOscillators["preview"].voice
      e1 == IF old # NoVoice THEN FadeOut(e, old, crossfadeDuration) ELSE e
      e2 == [e1 EXCEPT !.lastCrossfade =
               [old |-> old, new |-> NewVoiceId(e), at |-> e.currentTime,
                fade |-> crossfadeDuration]]
  IN CreateWithCrossfade(e2, e.currentTime, TicksPerSecond, wave,
                         crossfadeDuration, "preview")

\* ---------------------------------- the scheduler of one engine, its worker
lookaheadTime == Ms(100)

\* an event at exactly the end of the window counts as inside it
InLookaheadInclusive(e) == e.nextNoteTime <= e.currentTime + lookaheadTime

\* the condition of the while loop of AudioEngine.scheduler
InLookahead(e) == e.nextNoteTime < e.currentTime + lookaheadTime

\* AudioEngine.nextNote
nextNote(e) ==
  LET secondsPerBeat == (60 * TicksPerSecond) \div e.tempo
  IN [e EXCEPT !.nextNoteTime = @ + secondsPerBeat, !.currentBeat = @ + 1]

\* the while loop of AudioEngine.scheduler: scheduleNote, then nextNote
RECURSIVE SchedulerLoop(_)
SchedulerLoop(e) ==
  IF InLookahead(e)
  THEN SchedulerLoop(nextNote([e EXCEPT !.lastTick.scheduled =
                                  Append(@, e.nextNoteTime)]))
  ELSE e

\* AudioEngine.scheduler, the audio context existing
scheduler(e) ==
  SchedulerLoop([e EXCEPT !.lastTick =
                   [at |-> e.currentTime, from |-> e.nextNoteTime,
                    interval |-> (60 * TicksPerSecond) \div e.tempo,
                    scheduled |-> <<>>]])

\* timerWorker.onmessage
OnWorkerMessage(e) == IF e.isPlaying THEN scheduler(e) ELSE e

\* the worker on "start": timerID = setInterval(...)
WorkerOnStart(e) ==
  LET id == CHOOSE i \in 1..(Cardinality(e.intervals) + 1) : i \notin e.intervals
  IN [e EXCEPT !.timerID = id, !.intervals = @ \cup {id}]

\* the worker on "stop": clearInterval(timerID); timerID = null
WorkerOnStop(e) ==
  [e EXCEPT !.intervals = @ \ {e.timerID}, !.timerID = NoTimer]

\* AudioEngine.start(bpm), the audio context existing
start(e, bpm) ==
  WorkerOnStart([e EXCEPT !.tempo = bpm, !.isPlaying = TRUE,
                          !.currentBeat = 0, !.nextNoteTime = e.currentTime,
                          !.tickAfterStop = FALSE])

\* AudioEngine.stop()
stop(e) == WorkerOnStop([e EXCEPT !.isPlaying = FALSE])

\* an interval timer of the worker expires: postMessage("tick")
WorkerInterval(e) ==
  OnWorkerMessage([e EXCEPT !.tickAfterStop = ~e.isPlaying])

\* the callback of a cleanup timer: activeOscillators.delete(trackKey)
RunCleanup(e, c) ==
  [e EXCEPT !.cleanupTimers = @ \ {c},
            !.activeOscillators[c.key] = NoEntry,
            !.lastCleanup = [owner |-> c.owner,
                             removed |-> e.activeOscillators[c.key].voice]]

NoEvent ==
  [time |-> 0, grid |-> 0, idx |-> -1, rep |-> 0, len |-> 0, bpm |-> 0,
   sub |-> "1", interval |-> 0, swung |-> FALSE, wave |-> "sine",
   first |-> FALSE, k |-> 0, off |-> 0, since |-> 0,
   swingEnabled |-> FALSE, delay |-> 0, frequency |-> 0, duration |-> 0]

\* the record of one scheduled event (what the player handed to playNote)
RecordEvent(s, p, ev) ==
  [s EXCEPT !.prevEvent[p] = s.lastEvent[p], !.lastEvent[p] = ev,
            !.played = @ \cup {p}]

\* c: the cursor read, bpm and sub: the tempo settings the tick read
Event(c, time, bpm, sub, interval, swung, wave, first) ==
  [time |-> time, grid |-> c.next, idx |-> c.idx, rep |-> c.rep,
   len |-> c.cap.seqLen, bpm |-> bpm, sub |-> sub, interval |-> interval,
   swung |-> swung, wave |-> wave, first |-> first, k |-> c.k,
   off |-> c.off,
   since |-> IF c.k > MaxTrackedTick THEN 0 ELSE time - (c.next - c.off),
   swingEnabled |-> FALSE, delay |-> 0, frequency |-> 0, duration |-> 0]

\* a cursor that moves to the next note at every tick
CountTick(c) ==
  [c EXCEPT !.k = IF @ > MaxTrackedTick THEN @ ELSE @ + 1]

AdvanceCursorEveryTick(c, repetitionsPerBar) ==
  [CountTick(c) EXCEPT !.idx = (c.idx + 1) % c.cap.seqLen, !.rep = 0]

\* playbackRepetition++ and the move to the next note after a full bar
AdvanceCursor(c, repetitionsPerBar) ==
  IF c.rep + 1 >= repetitionsPerBar
  THEN [CountTick(c) EXCEPT !.idx = (c.idx + 1) % c.cap.seqLen, !.rep = 0]
  ELSE [CountTick(c) EXCEPT !.rep = c.rep + 1]

\* nextNoteTime += d
AdvanceNextNoteTime(c, d) ==
  [c EXCEPT !.next = @ + d,
            !.off = IF c.k > MaxTrackedTick THEN 0 ELSE @ + d]

\* ---------------------------------------------- PatternsMode (ref based)
PatternsScheduleNote(s, c, first) ==
  LET p == c.p
      repetitionsPerBar == getRepetitionsPerBar(s.currentSubdivisionRef[p])
      interval == noteInterval(s.currentBpmRef[p], repetitionsPerBar)
      swingOn == s.currentSubdivisionRef[p] = "2" /\ s.currentSwingRef[p]
      swingDelay == IF swingOn
                    THEN getSwingDelay(c.rep, s.currentSwingRef[p], interval)
                    ELSE 0
      playTime == Max(c.next + swingDelay, s.now)
      s1 == [s EXCEPT !.currentNoteIndex[p] = c.idx]
      s2 == playNote(s1, p, Ms(300), playTime, s.currentWaveTypeRef)
      s3 == RecordEvent(s2, p,
              [Event(c, playTime, s.currentBpmRef[p],
                     s.currentSubdivisionRef[p], interval, swingOn,
                     s.currentWaveTypeRef, first)
                 EXCEPT !.swingEnabled = s.currentSwingRef[p],
                        !.delay = swingDelay])
      c1 == AdvanceCursor(c, repetitionsPerBar)
      c2 == AdvanceNextNoteTime(c1, interval)
      timeUntilNext == Max(Ms(10), (c2.next - s.now) - Ms(10))
      s4 == SetTimeout(s3, c2, timeUntilNext)
  IN IF ~s.shouldContinuePlaybackRef[p] THEN s
     ELSE IF c.idx >= c.cap.seqLen
          THEN [s1 EXCEPT !.threw[p] = TRUE]   \* note is undefined: note.midi
     ELSE [s4 EXCEPT !.playbackTimeoutRef[p] = NewId(s3)]

PatternsStartPlayback(s, p, cap) ==
  IF cap.seqLen = 0 \/ ~cap.audioContext THEN s
  ELSE PatternsScheduleNote(
         [s EXCEPT !.shouldContinuePlaybackRef[p] = TRUE],
         Closure("scheduleNote", p, 0, 0, s.now + Ms(50), cap), TRUE)

\* a stopPlayback that leaves the pending timeout alone
RefStopPlaybackKeepsTimer(s, p) ==
  LET s1 == [s EXCEPT !.shouldContinuePlaybackRef[p] = FALSE,
                      !.stoppedPlayers = @ \cup {p}]
      s3 == EngineStop(s1, p)
  IN [s3 EXCEPT !.currentNoteIndex[p] = 0]

\* stopPlayback of PatternsMode and of RandomMode (part_008)
RefStopPlayback(s, p) ==
  LET s1 == [s EXCEPT !.shouldContinuePlaybackRef[p] = FALSE,
                      !.stoppedPlayers = @ \cup {p}]
      s2 == IF s1.playbackTimeoutRef[p] # NoTimer
            THEN [ClearTimeout(s1, s1.playbackTimeoutRef[p])
                    EXCEPT !.playbackTimeoutRef[p] = NoTimer]
            ELSE s1
      s3 == EngineStop(s2, p)
  IN [s3 EXCEPT !.currentNoteIndex[p] = 0]

\* ------------------------------------ RandomMode, unnamed/part_008 (ref based)
RandomScheduleNote(s, c0, first) ==
  LET p == c0.p
      repetitionsPerBar == getRepetitionsPerBar(s.currentSubdivisionRef[p])
      interval == noteInterval(s.currentBpmRef[p], repetitionsPerBar)
      \* reset the index if it is out of bounds
      c == IF c0.idx >= c0.cap.seqLen THEN [c0 EXCEPT !.idx = 0] ELSE c0
      playTime == Max(c.next, s.now)
      s1 == [s EXCEPT !.currentNoteIndex[p] = c.idx]
      s2 == playNote(s1, p, Ms(200), playTime, s.currentWaveTypeRef)
      c1 == AdvanceCursor(c, repetitionsPerBar)
      swingOn == s.currentSubdivisionRef[p] = "2" /\ s.currentSwingRef[p]
      swingDelay == IF swingOn
                    THEN getSwingDelay(c1.rep, s.currentSwingRef[p], interval)
                    ELSE 0
      s3 == RecordEvent(s2, p, Event(c, playTime, s.currentBpmRef[p],
                                     s.currentSubdivisionRef[p], interval,
                                     swingOn, s.currentWaveTypeRef, first))
      c2 == AdvanceNextNoteTime(c1, interval + swingDelay)
      timeUntilNext == Max(Ms(10), (c2.next - s.now) - Ms(10))
      s4 == SetTimeout(s3, c2, timeUntilNext)
  IN IF ~s.shouldContinuePlaybackRef[p] \/ c0.cap.seqLen = 0 THEN s
     ELSE IF c0.cap.isPlaying
          THEN [s4 EXCEPT !.playbackTimeoutRef[p] = NewId(s3)]
          ELSE s3

RandomStartPlayback(s, p, cap) ==
  IF cap.seqLen = 0 \/ ~cap.audioContext THEN s
  ELSE RandomScheduleNote(
         [s EXCEPT !.shouldContinuePlaybackRef[p] = TRUE],
         Closure("scheduleNote", p, 0, 0, s.now, cap), TRUE)

\* ------------------------------- RandomMode, mode-random.tsx (restart based)
V1ScheduleNote(s, c0, first) ==
  LET p == c0.p
      cap == c0.cap
      repetitionsPerBar == getRepetitionsPerBar(cap.subdivision)
      interval == noteInterval(cap.bpm, repetitionsPerBar)
      c == IF c0.idx >= cap.seqLen THEN [c0 EXCEPT !.idx = 0] ELSE c0
      playTime == c.next
      s1 == [s EXCEPT !.currentNoteIndex[p] = c.idx]
      s2 == playNote(s1, p, Ms(200), playTime, "sine")
      c1 == AdvanceCursor(c, repetitionsPerBar)
      swingOn == cap.subdivision = "2" /\ cap.swing # 50
      adjustedInterval == IF swingOn THEN applySwing(c1.rep, cap.swing, interval)
                          ELSE interval
      s3 == RecordEvent(s2, p, Event(c, playTime, cap.bpm, cap.subdivision,
                                     interval, swingOn, "sine", first))
      c2 == AdvanceNextNoteTime(c1, adjustedInterval)
      timeUntilNext == Max(0, (c2.next - s.now) - Ms(25))
      s4 == SetTimeout(s3, c2, timeUntilNext)
  IN IF ~cap.isPlaying \/ cap.seqLen = 0 THEN s
     ELSE [s4 EXCEPT !.playbackTimeoutRef[p] = NewId(s3)]

V1StartPlayback(s, p, cap) ==
  IF cap.seqLen = 0 \/ ~cap.audioContext THEN s
  ELSE V1ScheduleNote(s, Closure("scheduleNote", p, 0, 0, s.now, cap), TRUE)

\* ------------------------------------------------------- ProgressionsMode
ChordTones == 3
ToneDelays == {k * Ms(30) : k \in 0..(ChordTones - 1)}

\* the tones of the chord that forEach reaches before tone n
TonesBefore(s, p, cap, n) ==
  IF ~s.audioContext THEN s
  ELSE [s EXCEPT !.oscillators = @ \cup
          {[engine |-> p,
            start |-> IF cap.audioContext THEN s.now + d ELSE s.now,
            stop |-> (IF cap.audioContext THEN s.now + d ELSE s.now) + Ms(800),
            wave |-> "sine"] : d \in {k * Ms(30) : k \in 0..(n - 1)}}]

\* the tones of a chord, 30 ms apart; a closure without an audio context
\* asks for times that are long past, and the engine starts them at once
PlayChord(s, p, cap) ==
  IF ~s.audioContext THEN s
  ELSE [s EXCEPT !.oscillators = @ \cup
          {[engine |-> p,
            start |-> IF cap.audioContext THEN s.now + d ELSE s.now,
            stop |-> (IF cap.audioContext THEN s.now + d ELSE s.now) + Ms(800),
            wave |-> "sine"] : d \in ToneDelays}]

ScheduleChord(s, c, first) ==
  LET p == c.p
      cap == c.cap
      repetitionsPerBar == getRepetitionsPerBar(cap.subdivision)
      chordInterval == noteInterval(cap.bpm, repetitionsPerBar)
      s1 == [s EXCEPT !.currentNoteIndex[p] = c.idx]
      s2 == PlayChord(s1, p, cap)
      s3 == RecordEvent(s2, p, Event([c EXCEPT !.next = s.now], s.now, cap.bpm,
                                     cap.subdivision, chordInterval, FALSE,
                                     "sine", first))
      c1 == AdvanceCursor(c, repetitionsPerBar)
      s4 == SetTimeout(s3, c1, chordInterval)
  IN IF ~cap.isPlaying \/ cap.seqLen = 0 THEN s
     ELSE IF c.idx >= cap.seqLen
          THEN [s1 EXCEPT !.threw[p] = TRUE]  \* chord is undefined: chord.notes
     ELSE IF cap.invalidChord = c.idx
          \* getMidiFromNote throws on the tone: the callback ends there
          THEN [TonesBefore(s1, p, cap, cap.invalidTone)
                  EXCEPT !.threw[p] = TRUE, !.unresolved = @ \cup {p}]
     ELSE [s4 EXCEPT !.playbackTimeoutRef[p] = NewId(s3)]

\* a startPlayback that ignores the cycle start
ProgressionsStartPlaybackFromZero(s, p, cap) ==
  IF cap.seqLen = 0 THEN s
  ELSE ScheduleChord(s, Closure("scheduleNote", p, 0, 0, 0, cap), TRUE)

ProgressionsStartPlayback(s, p, cap) ==
  IF cap.seqLen = 0 THEN s
  ELSE ScheduleChord(s, Closure("scheduleNote", p, cap.cycleStart, 0, 0, cap),
                     TRUE)

\* stopPlayback of RandomMode (mode-random.tsx) and of ProgressionsMode
RestartStopPlayback(s, p) ==
  LET s1 == IF s.playbackTimeoutRef[p] # NoTimer
            THEN [ClearTimeout(s, s.playbackTimeoutRef[p])
                    EXCEPT !.playbackTimeoutRef[p] = NoTimer]
            ELSE s
      s2 == EngineStop(s1, p)
  IN [s2 EXCEPT !.currentNoteIndex[p] = 0, !.stoppedPlayers = @ \cup {p}]

\* ------------------------------------------------ dispatch on the component
startPlayback(s, p, cap) ==
  CASE p = "patterns" -> PatternsStartPlayback(s, p, cap)
    [] p = "random" -> RandomStartPlayback(s, p, cap)
    [] p = "randomV1" -> V1StartPlayback(s, p, cap)
    [] p = "progressions" -> ProgressionsStartPlayback(s, p, cap)

stopPlayback(s, p) ==
  IF p \in RefPlayers THEN RefStopPlayback(s, p) ELSE RestartStopPlayback(s, p)

scheduleNote(s, c) ==
  CASE c.p = "patterns" -> PatternsScheduleNote(s, c, FALSE)
    [] c.p = "random" -> RandomScheduleNote(s, c, FALSE)
    [] c.p = "randomV1" -> V1ScheduleNote(s, c, FALSE)
    [] c.p = "progressions" -> ScheduleChord(s, c, FALSE)

\* ------------------------------------------------------- the passing of time
Horizon == 2 * TicksPerSecond   \* an event older than this is forgotten

UsesNextNoteTime(t) ==
  \/ t.kind = "playBeat"
  \/ t.kind = "scheduleNote" /\ t.p # "progressions"

AgeEvent(ev, d) ==
  IF ev.idx = -1 \/ ev.time - d < -Horizon THEN NoEvent
  ELSE [ev EXCEPT !.time = @ - d, !.grid = @ - d]

\* d units pass: every stored timestamp moves d into the past, an oscillator
\* whose stop time is reached has ended
Elapse(s, d) ==
  [s EXCEPT
     !.timers = {[t EXCEPT !.due = @ - d,
                           !.next = IF UsesNextNoteTime(t) THEN @ - d ELSE @]
                 : t \in s.timers},
     !.oscillators = {[o EXCEPT !.start = @ - d, !.stop = @ - d]
                      : o \in {x \in s.oscillators : x.stop - d > 0}},
     !.lastEvent = [p \in Schedulers |-> AgeEvent(s.lastEvent[p], d)],
     !.prevEvent = [p \in Schedulers |-> AgeEvent(s.prevEvent[p], d)]]

\* ------------------------------------------------- the metronome (generator)
isCurrentModePlayingBack(s) ==
  s.currentMode \in Players /\ s.settings[s.currentMode].isPlaying

getCurrentBpm(s) ==
  IF s.currentMode \in Players THEN s.settings[s.currentMode].bpm ELSE 120

shouldPlayMetronome(s) == s.metronomeActive /\ isCurrentModePlayingBack(s)

\* a stopMetronomeBeats that leaves the pending timeout alone
stopMetronomeBeatsKeepsTimer(s) == [s EXCEPT !.metronomeIntervalRef = NoTimer]

stopMetronomeBeats(s) ==
  IF s.metronomeIntervalRef # NoTimer
  THEN [ClearTimeout(s, s.metronomeIntervalRef)
          EXCEPT !.metronomeIntervalRef = NoTimer]
  ELSE s

playBeat(s, c) ==
  LET beatInterval == noteInterval(c.cap.bpm, 4)
      frequency == 1000
      duration == Ms(80)
      s0 == [s EXCEPT !.oscillators = @ \cup
               {[engine |-> "metronome", start |-> c.next,
                 stop |-> c.next + duration, wave |-> "square"]}]
      s1 == RecordEvent(s0, "metronome",
              [Event(c, c.next, c.cap.bpm, c.cap.subdivision, beatInterval,
                     FALSE, "square", c.k = 0)
                 EXCEPT !.frequency = frequency, !.duration = duration])
      c1 == AdvanceNextNoteTime([CountTick(c) EXCEPT !.idx = (c.idx + 1) % 4],
                                beatInterval)
      timeUntilNext == Max(0, (c1.next - s.now) - Ms(25))
      s2 == SetTimeout(s1, c1, timeUntilNext)
  IN IF ~c.cap.isPlaying THEN s
     ELSE [s2 EXCEPT !.metronomeIntervalRef = NewId(s1)]

startMetronomeBeats(s) ==
  IF ~s.audioContext THEN s
  ELSE playBeat(stopMetronomeBeats(s),
                Closure("playBeat", "metronome", 0, 0, s.now + Ms(100),
                        [isPlaying |-> s.metronomeActive,
                         bpm |-> getCurrentBpm(s), subdivision |-> "1",
                         swing |-> 50, swingEnabled |-> FALSE, seqLen |-> 0,
                         cycleStart |-> 0, invalidChord |-> NoChord,
                         invalidTone |-> 0,
                         audioContext |-> s.audioContext]))

\* dependencies that restart the metronome when the subdivision changes
MetronomeDepsWithSubdivision(s) ==
  <<shouldPlayMetronome(s), getCurrentBpm(s), isCurrentModePlayingBack(s),
    IF s.currentMode \in Players
    THEN s.settings[s.currentMode].subdivision ELSE "1">>

MetronomeDeps(s) ==
  <<shouldPlayMetronome(s), getCurrentBpm(s), isCurrentModePlayingBack(s)>>

\* useEffect(..., [shouldPlayMetronome, getCurrentBpm(), isCurrentModePlayingBack()])
MetronomeEffect(old, s) ==
  IF MetronomeDeps(old) = MetronomeDeps(s) THEN s
  ELSE IF shouldPlayMetronome(s) THEN startMetronomeBeats(s)
  ELSE stopMetronomeBeats(s)

\* ------------------------------------------------- the effects of a player
ClearKind(s, p, kind) ==
  [s EXCEPT !.timers = {t \in @ : ~(t.p = p /\ t.kind = kind)}]

\* a ref-sync effect that never runs
RefSyncEffectStale(s, p, new) == s

\* refs follow the settings of the last render
RefSyncEffect(s, p, new) ==
  [s EXCEPT !.currentBpmRef[p] = new.bpm,
            !.currentSubdivisionRef[p] = new.subdivision,
            !.currentSwingRef[p] = new.swingEnabled]

\* useEffect(..., [settings.playback.isPlaying])
PlaybackEffect(s, p, new) ==
  IF new.isPlaying THEN startPlayback(s, p, RenderClosure(s, new))
  ELSE stopPlayback(s, p)

\* useEffect(..., [settings.playback.bpm]) and
\* useEffect(..., [settings.playback.subdivision, settings.playback.swing])
RestartEffect(s, p, new, kind) ==
  IF new.isPlaying
  THEN SetTimeout(stopPlayback(s, p),
                  Closure(kind, p, 0, 0, 0, RenderClosure(s, new)), Ms(50))
  ELSE s

\* the effects of the mounted component p after a render with settings new,
\* the previous render having had settings old: cleanups of the effects
\* whose dependencies changed run first, then the effects in source order
ComponentEffects(s, p, old, new) ==
  LET bpmCh == old.bpm # new.bpm
      subCh == old.subdivision # new.subdivision \/ old.swing # new.swing
      refCh == old.bpm # new.bpm \/ old.subdivision # new.subdivision
                 \/ old.swingEnabled # new.swingEnabled
      playCh == old.isPlaying # new.isPlaying
  IN IF p \in RefPlayers
     THEN LET s1 == IF refCh THEN RefSyncEffect(s, p, new) ELSE s
          IN IF playCh THEN PlaybackEffect(s1, p, new) ELSE s1
     ELSE LET s1 == IF bpmCh THEN ClearKind(s, p, "restartBpm") ELSE s
              s2 == IF subCh THEN ClearKind(s1, p, "restartSub") ELSE s1
              s3 == IF playCh THEN PlaybackEffect(s2, p, new) ELSE s2
              s4 == IF bpmCh THEN RestartEffect(s3, p, new, "restartBpm") ELSE s3
          IN IF subCh THEN RestartEffect(s4, p, new, "restartSub") ELSE s4

\* onSettingsChange(new) of the mounted player: the generator stores the new
\* settings, renders, and the effects of the player and of the metronome run
OnSettingsChange(s, new) ==
  LET p == s.currentMode
      s1 == [s EXCEPT !.settings[p] = new]
      s2 == ComponentEffects(s1, p, s.settings[p], new)
  IN MetronomeEffect(s, s2)

\* ------------------------------------------------------------ the tab switch
\* first render of the player of tab m: fresh refs, then its mount effects.
\* PatternsMode generates its pattern, ProgressionsMode its progression;
\* the isPlaying effect of a first render always finds isPlaying false.
Mount(s, m) ==
  LET s1 == [s EXCEPT !.shouldContinuePlaybackRef[m] = FALSE,
                      !.playbackTimeoutRef[m] = NoTimer,
                      !.currentNoteIndex[m] = 0]
      s2 == IF m \in RefPlayers THEN RefSyncEffect(s1, m, s1.settings[m]) ELSE s1
      s3 == IF m \in {"patterns", "progressions"}
            THEN [s2 EXCEPT !.settings[m].seqLen = GeneratedLen,
                            !.settings[m].invalidChord = NoChord,
                            !.settings[m].invalidTone = 0]
            ELSE s2
  IN stopPlayback(s3, m)

\* unmount of the player of tab m: the cleanups of its restart effects
Unmount(s, m) == ClearKind(ClearKind(s, m, "restartBpm"), m, "restartSub")

\* the 'stopAllAudio' listener of player p
handleStopAllAudio(s, p) == stopPlayback(s, p)

resetModeSettings(st) == [st EXCEPT !.isPlaying = FALSE, !.seqLen = 0]

switchTab(s, mode) ==
  LET old == s.currentMode
      \* FIRST: the event reaches the mounted player, then the metronome
      s1 == IF old \in Players THEN handleStopAllAudio(s, old) ELSE s
      s2 == stopMetronomeBeats(s1)
      \* SECOND: the shared engines of the generator, and the metronome
      s3 == stopMetronomeBeats(EngineStop(EngineStop(s2, "random"), "patterns"))
      \* THIRD: the reset of every mode
      s4 == [s3 EXCEPT !.currentMode = mode,
                       !.settings = [q \in Players |-> resetModeSettings(@[q])]]
      \* the render that follows
      s5 == IF mode = old
            THEN IF old \in Players
                 THEN ComponentEffects(s4, old, s.settings[old], s4.settings[old])
                 ELSE s4
            ELSE LET u == IF old \in Players THEN Unmount(s4, old) ELSE s4
                 IN IF mode \in Players THEN Mount(u, mode) ELSE u
  IN MetronomeEffect(s, s5)

\* first render of the player of tab m with the settings the page holds for
\* it: fresh refs, then every effect of the component in source order
MountRender(s, m) ==
  LET s1 == [s EXCEPT !.shouldContinuePlaybackRef[m] = FALSE,
                      !.playbackTimeoutRef[m] = NoTimer,
                      !.currentNoteIndex[m] = 0]
      s2 == IF m \in RefPlayers THEN RefSyncEffect(s1, m, s1.settings[m]) ELSE s1
      s3 == IF m \in {"patterns", "progressions"}
            THEN [s2 EXCEPT !.settings[m].seqLen = GeneratedLen,
                            !.settings[m].invalidChord = NoChord,
                            !.settings[m].invalidTone = 0]
            ELSE s2
      s4 == PlaybackEffect(s3, m, s3.settings[m])
  IN IF m \in RefPlayers THEN s4
     ELSE RestartEffect(RestartEffect(s4, m, s3.settings[m], "restartBpm"),
                        m, s3.settings[m], "restartSub")

\* onModeChange of the keyboard shortcuts: only currentMode is written
onModeChange(s, mode) ==
  LET old == s.currentMode
      s1 == [s EXCEPT !.currentMode = mode]
      u == IF old \in Players THEN Unmount(s1, old) ELSE s1
      m == IF mode \in Players THEN MountRender(u, mode) ELSE u
  IN MetronomeEffect(s, m)

\* ------------------------------------------------------------------- Init
DefaultBpm(p) ==
  CASE p = "progressions" -> 100
    [] p = "patterns" -> 80
    [] OTHER -> 120

defaultSettings(p) ==
  [isPlaying |-> FALSE, bpm |-> DefaultBpm(p), subdivision |-> "1",
   swing |-> 50, swingEnabled |-> FALSE, seqLen |-> 0, cycleStart |-> 0,
   invalidChord |-> NoChord, invalidTone |-> 0]

\* the page as MusicalNoteGenerator first renders it
InitialPage ==
  /\ audioContext = FALSE
  /\ currentMode \in {"random", "randomV1"}
  /\ settings = [p \in Players |-> defaultSettings(p)]
  /\ waveType = "piano"
  /\ currentWaveTypeRef = "piano"
  /\ metronomeActive = FALSE
  /\ currentBpmRef = [p \in Players |-> DefaultBpm(p)]
  /\ currentSubdivisionRef = [p \in Players |-> "1"]
  /\ currentSwingRef = [p \in Players |-> FALSE]
  /\ shouldContinuePlaybackRef = [p \in Players |-> FALSE]
  /\ playbackTimeoutRef = [p \in Players |-> NoTimer]
  /\ metronomeIntervalRef = NoTimer
  /\ currentNoteIndex = [p \in Players |-> 0]
  /\ timers = {}
  /\ oscillators = {}
  /\ engineIsPlaying = [p \in Players |-> FALSE]
  /\ lastEvent = [p \in Schedulers |-> NoEvent]
  /\ prevEvent = [p \in Schedulers |-> NoEvent]
  /\ audioEngine = NewEngine
  /\ threw = [p \in Players |-> FALSE]
  /\ lastOp = [op |-> "init", p |-> "none", prev |-> "init", stopped |-> {},
               stoppedPlayers |-> {}, cancelled |-> {}, played |-> {},
               unresolved |-> {}]
  /\ latesLeft = MaxLateCallbacks

Init ==
  /\ InitialPage
  /\ actionsLeft = MaxUserActions
  /\ changesLeft = MaxSettingChanges

\* ---------------------------------------------------------------- actions
\* play/stop, generate, tab switch
UserAction ==
  /\ actionsLeft > 0
  /\ actionsLeft' = actionsLeft - 1
  /\ UNCHANGED <<changesLeft, latesLeft>>

SettingChange ==
  /\ actionsLeft > 0
  /\ changesLeft > 0
  /\ actionsLeft' = actionsLeft - 1
  /\ changesLeft' = changesLeft - 1
  /\ UNCHANGED latesLeft

\* initializeAudio, started by the first click or key press, completes
InitializeAudio ==
  /\ ~audioContext
  /\ lastOp.op # "init"
  /\ UNCHANGED <<actionsLeft, changesLeft, latesLeft>>
  /\ Commit([State EXCEPT !.audioContext = TRUE], "initializeAudio", "none")

TogglePlayback ==
  /\ currentMode \in Players
  /\ UserAction
  /\ Commit(OnSettingsChange(State, [settings[currentMode]
                                       EXCEPT !.isPlaying = ~@]),
            "togglePlayback", currentMode)

UpdateBPM ==
  /\ currentMode \in Players
  /\ SettingChange
  /\ \E bpm \in BpmValues \ {settings[currentMode].bpm} :
       Commit(OnSettingsChange(State, [settings[currentMode]
                                         EXCEPT !.bpm = bpm]),
              "updateBPM", currentMode)

UpdateSubdivision ==
  /\ currentMode \in Players
  /\ SettingChange
  /\ \E sub \in Subdivisions \ {settings[currentMode].subdivision} :
       Commit(OnSettingsChange(State, [settings[currentMode]
                                         EXCEPT !.subdivision = sub]),
              "updateSubdivision", currentMode)

UpdateSwing ==
  /\ currentMode \in Players
  /\ settings[currentMode].subdivision = "2"
  /\ SettingChange
  /\ IF currentMode \in RefPlayers
     THEN Commit(OnSettingsChange(State, [settings[currentMode]
                                            EXCEPT !.swingEnabled = ~@]),
                 "updateSwing", currentMode)
     ELSE \E sw \in SwingValues \ {settings[currentMode].swing} :
            Commit(OnSettingsChange(State, [settings[currentMode]
                                              EXCEPT !.swing = sw]),
                   "updateSwing", currentMode)

UpdateCycleStart ==
  /\ currentMode = "progressions"
  /\ SettingChange
  /\ \E k \in CycleStarts \ {settings[currentMode].cycleStart} :
       Commit(OnSettingsChange(State, [settings[currentMode]
                                         EXCEPT !.cycleStart = k]),
              "updateCycleStart", currentMode)

\* generateRandomNotes of part_008: new notes, playback off, no autoplay;
\* the button is disabled while playing
GenerateRandomNotes ==
  /\ currentMode = "random"
  /\ ~settings[currentMode].isPlaying
  /\ UserAction
  /\ Commit(OnSettingsChange(State, [settings[currentMode]
                                       EXCEPT !.seqLen = GeneratedLen,
                                              !.isPlaying = FALSE]),
            "generateRandomNotes", currentMode)

\* generateRandomNotes of mode-random.tsx: new notes, playback off, and a
\* 100 ms timer that turns playback on with the settings of this render
GenerateRandomNotesV1 ==
  /\ currentMode = "randomV1"
  /\ UserAction
  /\ LET new == [settings[currentMode] EXCEPT !.seqLen = GeneratedLen,
                                              !.isPlaying = FALSE]
         s1 == OnSettingsChange(State, new)
     IN Commit(SetTimeout(s1, Closure("autoplay", currentMode, 0, 0, 0,
                                      RenderClosure(State, new)), Ms(100)),
               "generateRandomNotes", currentMode)

\* importSettings: the file replaces the sequence of the current mode
ImportSettings ==
  /\ currentMode \in Players
  /\ SettingChange
  /\ \E n \in (1..MaxImportLen) \ {settings[currentMode].seqLen} :
       Commit(OnSettingsChange(State, [settings[currentMode]
                                         EXCEPT !.seqLen = n]),
              "importSettings", currentMode)

\* the wave type select: the ref first, then the settings
SetWaveType ==
  /\ SettingChange
  /\ \E w \in WaveTypes \ {waveType} :
       Commit([State EXCEPT !.currentWaveTypeRef = w, !.waveType = w],
              "setWaveType", "none")

ToggleMetronome ==
  /\ SettingChange
  /\ LET s1 == [State EXCEPT !.metronomeActive = ~@]
     IN Commit(MetronomeEffect(State, s1), "toggleMetronome", "metronome")

SwitchTab ==
  /\ UserAction
  /\ \E mode \in Modes :
       Commit(switchTab(State, mode), "switchTab", currentMode)

\* the R, P, T and G keys: handleKeyDown calls onModeChange for another mode
OnModeChange ==
  /\ UserAction
  /\ \E mode \in Modes \ {currentMode} :
       Commit(onModeChange(State, mode), "onModeChange", currentMode)

\* the callback of a timer, run with the closure the timer carries
RunCallback(s, c) ==
  CASE c.kind = "scheduleNote" -> scheduleNote(s, c)
    [] c.kind = "playBeat" -> playBeat(s, c)
    [] c.kind \in {"restartBpm", "restartSub"} -> startPlayback(s, c.p, c.cap)
    [] c.kind = "autoplay" ->
         LET new == [SettingsOf(c.cap) EXCEPT !.isPlaying = TRUE]
             s1 == [s EXCEPT !.settings[c.p] = new]
             s2 == IF s.currentMode = c.p
                   THEN ComponentEffects(s1, c.p, s.settings[c.p], new)
                   ELSE s1
         IN MetronomeEffect(s, s2)

\* the pending timer that is due first expires, on time or late
FireTimer ==
  /\ UNCHANGED <<actionsLeft, changesLeft>>
  /\ \E t \in timers, late \in Lateness :
       /\ \A u \in timers : t.due <= u.due
       /\ late > 0 => latesLeft > 0
       /\ latesLeft' = IF late > 0 THEN latesLeft - 1 ELSE latesLeft
       /\ LET s0 == Elapse(State, Max(0, t.due + late))
              c == CHOOSE u \in s0.timers : u.id = t.id
              s1 == [s0 EXCEPT
                       !.timers = @ \ {c},
                       !.playbackTimeoutRef =
                          [p \in Players |-> IF @[p] = t.id THEN Fired ELSE @[p]],
                       !.metronomeIntervalRef =
                          IF @ = t.id THEN Fired ELSE @]
          IN Commit(RunCallback(s1, c), t.kind, t.p)

\* nothing is pending: the sounding oscillators end
Wait ==
  /\ timers = {}
  /\ oscillators # {}
  /\ UNCHANGED <<actionsLeft, changesLeft, latesLeft>>
  /\ Commit(Elapse(State, Horizon), "wait", "none")

Next ==
  \/ InitializeAudio
  \/ TogglePlayback
  \/ UpdateBPM
  \/ UpdateSubdivision
  \/ UpdateSwing
  \/ UpdateCycleStart
  \/ GenerateRandomNotes
  \/ GenerateRandomNotesV1
  \/ ImportSettings
  \/ SetWaveType
  \/ ToggleMetronome
  \/ SwitchTab
  \/ FireTimer
  \/ Wait

Spec == Init /\ [][Next]_vars

\* play, stop, generate, tab switches and the cycle start only, one user
\* event more
InitControl ==
  /\ InitialPage
  /\ actionsLeft = MaxControlActions
  /\ changesLeft = MaxControlChanges

NextControl ==
  \/ InitializeAudio
  \/ TogglePlayback
  \/ UpdateCycleStart
  \/ GenerateRandomNotes
  \/ GenerateRandomNotesV1
  \/ SwitchTab
  \/ FireTimer
  \/ Wait

SpecControl == InitControl /\ [][NextControl]_vars

\* play, stop, generate, and mode changes by tab click and by shortcut key
InitKeys ==
  /\ InitialPage
  /\ actionsLeft = MaxKeyActions
  /\ changesLeft = 0

NextKeys ==
  \/ InitializeAudio
  \/ TogglePlayback
  \/ GenerateRandomNotes
  \/ GenerateRandomNotesV1
  \/ SwitchTab
  \/ OnModeChange
  \/ FireTimer
  \/ Wait

SpecKeys == InitKeys /\ [][NextKeys]_vars

\* the page after the user has opened a tab, generated its sequence, chosen
\* eighth notes, a tempo and swing on or off; play, stop, swing and tempo
\* changes follow
SwingBpmValues == {60, 120}

InitSwing ==
  \E m \in Players, bpm \in SwingBpmValues, sw \in BOOLEAN :
    LET st == [defaultSettings(m) EXCEPT !.bpm = bpm, !.subdivision = "2",
                                         !.seqLen = GeneratedLen,
                                         !.swingEnabled = sw,
                                         !.swing = IF sw THEN 67 ELSE 50]
    IN /\ audioContext = TRUE
       /\ currentMode = m
       /\ settings = [p \in Players |-> IF p = m THEN st ELSE defaultSettings(p)]
       /\ waveType = "piano"
       /\ currentWaveTypeRef = "piano"
       /\ metronomeActive = FALSE
       /\ currentBpmRef = [p \in Players |-> IF p = m THEN bpm ELSE DefaultBpm(p)]
       /\ currentSubdivisionRef = [p \in Players |-> IF p = m THEN "2" ELSE "1"]
       /\ currentSwingRef = [p \in Players |-> p = m /\ sw]
       /\ shouldContinuePlaybackRef = [p \in Players |-> FALSE]
       /\ playbackTimeoutRef = [p \in Players |-> NoTimer]
       /\ metronomeIntervalRef = NoTimer
       /\ currentNoteIndex = [p \in Players |-> 0]
       /\ timers = {}
       /\ oscillators = {}
       /\ engineIsPlaying = [p \in Players |-> FALSE]
       /\ lastEvent = [p \in Schedulers |-> NoEvent]
       /\ prevEvent = [p \in Schedulers |-> NoEvent]
       /\ audioEngine = NewEngine
       /\ threw = [p \in Players |-> FALSE]
       /\ lastOp = [op |-> "updateSubdivision", p |-> m, prev |-> "init",
                    stopped |-> {}, stoppedPlayers |-> {}, cancelled |-> {},
                    played |-> {}, unresolved |-> {}]
       /\ latesLeft = MaxLateCallbacks
       /\ actionsLeft = MaxSwingActions
       /\ changesLeft = MaxSwingChanges

NextSwing ==
  \/ TogglePlayback
  \/ UpdateBPM
  \/ UpdateSubdivision
  \/ UpdateSwing
  \/ FireTimer
  \/ Wait

SpecSwing == InitSwing /\ [][NextSwing]_vars

\* importSettings of a file with a progression of the selected key and
\* type, one chord of which may hold a note name that is no note
ImportProgression ==
  /\ currentMode = "progressions"
  /\ SettingChange
  /\ \E chord \in {NoChord} \cup (0..(GeneratedLen - 1)),
        tone \in 0..(ChordTones - 1) :
       /\ chord = NoChord => tone = 0
       /\ <<chord, tone>> # <<settings[currentMode].invalidChord,
                              settings[currentMode].invalidTone>>
       /\ Commit(OnSettingsChange(State, [settings[currentMode]
                                           EXCEPT !.seqLen = GeneratedLen,
                                                  !.invalidChord = chord,
                                                  !.invalidTone = tone]),
                 "importSettings", currentMode)

\* the page with the Progressions tab open and its progression generated;
\* imports of settings files, play and stop follow
InitImport ==
  LET m == "progressions"
      st == [defaultSettings(m) EXCEPT !.seqLen = GeneratedLen]
  IN /\ audioContext = TRUE
     /\ currentMode = m
     /\ settings = [p \in Players |-> IF p = m THEN st ELSE defaultSettings(p)]
     /\ waveType = "piano"
     /\ currentWaveTypeRef = "piano"
     /\ metronomeActive = FALSE
     /\ currentBpmRef = [p \in Players |-> DefaultBpm(p)]
     /\ currentSubdivisionRef = [p \in Players |-> "1"]
     /\ currentSwingRef = [p \in Players |-> FALSE]
     /\ shouldContinuePlaybackRef = [p \in Players |-> FALSE]
     /\ playbackTimeoutRef = [p \in Players |-> NoTimer]
     /\ metronomeIntervalRef = NoTimer
     /\ currentNoteIndex = [p \in Players |-> 0]
     /\ timers = {}
     /\ oscillators = {}
     /\ engineIsPlaying = [p \in Players |-> FALSE]
     /\ lastEvent = [p \in Schedulers |-> NoEvent]
     /\ prevEvent = [p \in Schedulers |-> NoEvent]
     /\ audioEngine = NewEngine
     /\ threw = [p \in Players |-> FALSE]
     /\ lastOp = [op |-> "switchTab", p |-> m, prev |-> "init",
                  stopped |-> {}, stoppedPlayers |-> {}, cancelled |-> {},
                  played |-> {}, unresolved |-> {}]
     /\ latesLeft = MaxLateCallbacks
     /\ actionsLeft = MaxImportActions
     /\ changesLeft = MaxImportChanges

NextImport ==
  \/ ImportProgression
  \/ TogglePlayback
  \/ FireTimer
  \/ Wait

SpecImport == InitImport /\ [][NextImport]_vars

\* --------------------------------------- the voice tracker of one engine
NoteDurations == {Ms(500)}
CrossfadeDurations == {Ms(100), Ms(300)}
ClockSteps == {Ms(250)}

TrackerCall ==
  /\ actionsLeft > 0
  /\ actionsLeft' = actionsLeft - 1
  /\ UNCHANGED <<changesLeft, latesLeft>>

\* playNote(frequency, duration, undefined, waveType, trackKey)
PlayTracked ==
  /\ TrackerCall
  /\ \E trackKey \in TrackKeys, wave \in WaveTypes, duration \in NoteDurations :
       Commit([State EXCEPT !.audioEngine =
                 PlayNoteTracked(@, duration, 0, wave, trackKey)],
              "playNote", "none")

\* crossfadeToWaveType(frequency, newWaveType, crossfadeDuration)
Crossfade ==
  /\ TrackerCall
  /\ \E wave \in WaveTypes, crossfadeDuration \in CrossfadeDurations :
       Commit([State EXCEPT !.audioEngine =
                 CrossfadeTo(@, wave, crossfadeDuration)],
              "crossfadeToWaveType", "none")

\* a cleanup timer that is due runs, on time or late
CleanupTimer ==
  /\ UNCHANGED <<actionsLeft, changesLeft, latesLeft>>
  /\ \E c \in audioEngine.cleanupTimers :
       /\ c.due <= audioEngine.currentTime
       /\ Commit([State EXCEPT !.audioEngine = RunCleanup(@, c)],
                 "cleanup", "none")

\* the audio clock advances
AudioClock ==
  /\ UNCHANGED <<actionsLeft, changesLeft, latesLeft>>
  /\ \E d \in ClockSteps :
       /\ audioEngine.currentTime + d <= MaxAudioTime
       /\ Commit([State EXCEPT !.audioEngine.currentTime = @ + d],
                 "clock", "none")

\* an engine whose audio context exists, nothing rendered yet
EnginePage ==
  /\ audioContext = TRUE
  /\ currentMode = "random"
  /\ settings = [p \in Players |-> defaultSettings(p)]
  /\ waveType = "piano"
  /\ currentWaveTypeRef = "piano"
  /\ metronomeActive = FALSE
  /\ currentBpmRef = [p \in Players |-> DefaultBpm(p)]
  /\ currentSubdivisionRef = [p \in Players |-> "1"]
  /\ currentSwingRef = [p \in Players |-> FALSE]
  /\ shouldContinuePlaybackRef = [p \in Players |-> FALSE]
  /\ playbackTimeoutRef = [p \in Players |-> NoTimer]
  /\ metronomeIntervalRef = NoTimer
  /\ currentNoteIndex = [p \in Players |-> 0]
  /\ timers = {}
  /\ oscillators = {}
  /\ engineIsPlaying = [p \in Players |-> FALSE]
  /\ audioEngine = NewEngine
  /\ lastEvent = [p \in Schedulers |-> NoEvent]
  /\ prevEvent = [p \in Schedulers |-> NoEvent]
  /\ threw = [p \in Players |-> FALSE]
  /\ lastOp = [op |-> "initializeAudio", p |-> "none", prev |-> "init",
               stopped |-> {}, stoppedPlayers |-> {}, cancelled |-> {},
               played |-> {}, unresolved |-> {}]
  /\ latesLeft = 0
  /\ changesLeft = 0

InitTracker ==
  /\ EnginePage
  /\ actionsLeft = MaxTrackerCalls

NextTracker ==
  \/ PlayTracked
  \/ Crossfade
  \/ CleanupTimer
  \/ AudioClock

SpecTracker == InitTracker /\ [][NextTracker]_vars

\* ------------------------------------ start, stop and the timer worker
TempoValues == {100, 240}

StartEngine ==
  /\ TrackerCall
  /\ \E bpm \in TempoValues :
       Commit([State EXCEPT !.audioEngine = start(@, bpm)], "start", "none")

StopEngine ==
  /\ TrackerCall
  /\ Commit([State EXCEPT !.audioEngine = stop(@)], "stop", "none")

\* an interval timer of the worker posts 'tick' and the engine receives it
WorkerTick ==
  /\ UNCHANGED <<actionsLeft, changesLeft, latesLeft>>
  /\ audioEngine.intervals # {}
  /\ Commit([State EXCEPT !.audioEngine = WorkerInterval(@)], "tick", "none")

InitWorker ==
  /\ EnginePage
  /\ actionsLeft = MaxWorkerCalls

NextWorker ==
  \/ StartEngine
  \/ StopEngine
  \/ WorkerTick
  \/ AudioClock

SpecWorker == InitWorker /\ [][NextWorker]_vars

\* the operations of an AudioEngine called directly, before and after the
\* audio context exists
EngineOperations ==
  {"playNote", "createOscillator", "createPianoSound", "createClick",
   "crossfadeToWaveType", "start", "stop"}

CallOperation(s, p, op, wave) ==
  CASE op = "playNote" -> playNote(s, p, Ms(500), 0, wave)
    [] op = "createOscillator" -> createOscillator(s, p, s.now, Ms(100), wave)
    [] op = "createPianoSound" -> createPianoSound(s, p, s.now, Ms(500))
    [] op = "createClick" -> createClick(s, p, wave = "piano", s.now)
    [] op = "crossfadeToWaveType" -> crossfadeToWaveType(s, p, wave)
    [] op = "start" -> EngineStart(s, p)
    [] op = "stop" -> EngineStop(s, p)

EngineCall ==
  /\ actionsLeft > 0
  /\ actionsLeft' = actionsLeft - 1
  /\ UNCHANGED <<changesLeft, latesLeft>>
  /\ \E p \in Players, op \in EngineOperations, wave \in WaveTypes :
       Commit(CallOperation(State, p, op, wave), op, p)

InitEngine ==
  /\ InitialPage
  /\ actionsLeft = MaxEngineCalls
  /\ changesLeft = 0

NextEngine ==
  \/ EngineCall
  \/ InitializeAudio
  \/ Wait

SpecEngine == InitEngine /\ [][NextEngine]_vars

\* ------------------------------------------------------------------ claims
PendingCallbacks(p) == {t \in timers : t.kind = "scheduleNote" /\ t.p = p}

\* C1: a Sequence Player never has two scheduling loops alive: at most one
\* scheduleNote/scheduleChord callback of the player is pending at any time.
C1_OneSchedulingLoop ==
  \A p \in Players : Cardinality(PendingCallbacks(p)) <= 1

C3_StopSilencesVoices ==
  \A p \in lastOp.stopped : \A o \in oscillators : o.engine # p

\* C4: a scheduleNote/scheduleChord callback that runs while the player is
\* stopped is a no-op: it plays nothing and schedules no further callback.
C4_LateCallbackIsNoOp ==
  \A p \in Players :
    ( /\ lastOp.op = "scheduleNote"
      /\ lastOp.p = p
      /\ ~settings[p].isPlaying ) =>
      /\ p \notin lastOp.played
      /\ PendingCallbacks(p) = {}

\* the timer callbacks that schedule sound
SchedulingKinds == {"scheduleNote", "playBeat", "restartBpm", "restartSub"}

\* C5: once switchTab has returned, every player and the metronome are fully
\* stopped: no callback that schedules sound is pending, every liveness flag
\* is false, every timeout ref is null and every cursor is reset.
C5_SwitchTabStopsAll ==
  lastOp.op = "switchTab" =>
    /\ \A t \in timers : t.kind \notin SchedulingKinds
    /\ metronomeIntervalRef = NoTimer
    /\ \A p \in Players :
         /\ ~shouldContinuePlaybackRef[p]
         /\ playbackTimeoutRef[p] = NoTimer
         /\ currentNoteIndex[p] = 0

\* (60 / bpm) / (repetitionsPerBar / 4) as the specification writes it, with
\* 4, 8, 12, 16 repetitions per bar for the subdivisions 1, 2, 3, 4
RepetitionsOf(sub) ==
  IF sub = "1" THEN 4 ELSE IF sub = "2" THEN 8 ELSE IF sub = "3" THEN 12 ELSE 16

SpecInterval(bpm, sub) == (240 * TicksPerSecond) \div (bpm * RepetitionsOf(sub))

\* every tick of PatternsMode and RandomMode (part_008) computes its interval
\* from the BPM of the current settings and plays with the current wave type
C6_TickReadsLiveSettings ==
  \A p \in RefPlayers :
    (lastOp.op = "scheduleNote" /\ p \in lastOp.played) =>
      /\ lastEvent[p].bpm = settings[p].bpm
      /\ lastEvent[p].interval =
           SpecInterval(settings[p].bpm, settings[p].subdivision)
      /\ lastEvent[p].wave = waveType

\* a BPM or wave type change while playing leaves the loop as it was
C6_ChangeLeavesLoop ==
  \A p \in RefPlayers :
    ( /\ lastOp'.op \in {"updateBPM", "setWaveType"}
      /\ currentMode = p
      /\ settings[p].isPlaying ) =>
      /\ PendingCallbacks(p)' = PendingCallbacks(p)
      /\ currentNoteIndex'[p] = currentNoteIndex[p]
      /\ shouldContinuePlaybackRef'[p] = shouldContinuePlaybackRef[p]
      /\ p \notin lastOp'.stoppedPlayers
      /\ p \notin lastOp'.played

C7_ChangeLeavesLoop ==
  \A p \in Players :
    ( /\ lastOp'.op \in {"updateSubdivision", "updateSwing"}
      /\ currentMode = p
      /\ settings[p].isPlaying ) =>
      /\ PendingCallbacks(p)' = PendingCallbacks(p)
      /\ p \notin lastOp'.stoppedPlayers

\* C7: a subdivision or swing change during playback triggers no
\* stopPlayback and leaves the pending callback of the loop, with its note
\* index, repetition count and nextNoteTime, as it was.
C7_NoRestartOnSubdivisionOrSwing == [][C7_ChangeLeavesLoop]_vars

CitedPlayers == {"random", "patterns", "progressions"}

\* the first event of a loop, scheduled by the startPlayback that just ran
StartedNow(p) == p \in lastOp.played /\ lastEvent[p].first

C9_TickIndexInRange ==
  \A p \in CitedPlayers :
    ( /\ lastOp.op = "scheduleNote"
      /\ lastOp.p = p
      /\ settings[p].isPlaying
      /\ settings[p].seqLen > 0 ) =>
      /\ ~threw[p]
      /\ p \in lastOp.played
      /\ lastEvent[p].idx \in 0..(settings[p].seqLen - 1)
      /\ Cardinality(PendingCallbacks(p)) = 1

\* two consecutive events of one loop of PatternsMode or RandomMode
\* (part_008), scheduled with the same BPM and subdivision, swing off
ConsecutiveEvents(p) ==
  /\ lastOp.op = "scheduleNote"
  /\ p \in lastOp.played
  /\ ~lastEvent[p].first
  /\ prevEvent[p].idx # -1
  /\ lastEvent[p].bpm = prevEvent[p].bpm
  /\ lastEvent[p].sub = prevEvent[p].sub
  /\ ~lastEvent[p].swung
  /\ ~prevEvent[p].swung

\* C10: with fixed BPM and subdivision and swing off, the timestamps of two
\* consecutively scheduled events differ by (60/bpm)/(repetitionsPerBar/4).
C10_TimestampDelta ==
  \A p \in RefPlayers :
    ConsecutiveEvents(p) =>
      lastEvent[p].time - prevEvent[p].time =
        SpecInterval(lastEvent[p].bpm, lastEvent[p].sub)

\* two consecutive ticks of one loop of player p
ConsecutiveTicks(p) ==
  /\ lastOp.op = "scheduleNote"
  /\ p \in lastOp.played
  /\ ~lastEvent[p].first
  /\ prevEvent[p].idx # -1

\* the callback that the tick of player p just run has scheduled
NextTickOf(p) ==
  {t \in timers : t.kind = "scheduleNote" /\ t.p = p
                    /\ t.id = playbackTimeoutRef[p]}

\* C11: with a fixed subdivision every loop of a player starts with
\* repetition 0, sounds one index for repetitionsPerBar consecutive ticks and
\* then moves to (index + 1) mod length: the tick that follows the tick of
\* repetition r sounds the same index with r + 1, or the next index with 0
\* when r + 1 reaches repetitionsPerBar; at bpm 120 and subdivision "1" the
\* interval is 0.5 s, a bar of 4 ticks is 2.0 s and 4 notes are 8.0 s.
C11_RepeatThenAdvance ==
  \A p \in Players :
    p \in lastOp.played =>
      LET ev == lastEvent[p]
          reps == RepetitionsOf(ev.sub)
      IN /\ ev.first => ev.rep = 0
         /\ \A t \in NextTickOf(p) :
              IF ev.rep + 1 >= reps
              THEN t.idx = (ev.idx + 1) % ev.len /\ t.rep = 0
              ELSE t.idx = ev.idx /\ t.rep = ev.rep + 1
         /\ (ev.bpm = 120 /\ ev.sub = "1") =>
              /\ 2 * ev.interval = TicksPerSecond
              /\ reps * ev.interval = 2 * TicksPerSecond
              /\ (ev.len = 4 => 4 * reps * ev.interval = 8 * TicksPerSecond)

\* the tick that ends the last bar of a sequence of 4 notes at bpm 120,
\* subdivision "1": the next tick is index 0 again
C11_Witness ==
  \E p \in Players :
    /\ lastOp.op = "scheduleNote"
    /\ p \in lastOp.played
    /\ lastEvent[p].bpm = 120 /\ lastEvent[p].sub = "1"
    /\ lastEvent[p].len = 4
    /\ lastEvent[p].idx = 3 /\ lastEvent[p].rep = 3
    /\ \E t \in NextTickOf(p) : t.idx = 0 /\ t.rep = 0

\* a tick of player p that read swing enabled at subdivision "2"
SwungTick(p) ==
  /\ lastOp.op \in {"scheduleNote", "togglePlayback"}
  /\ p \in lastOp.played
  /\ lastEvent[p].swung

\* C12: in PatternsMode with swing enabled and subdivision "2" an odd tick
\* sounds interval/3 after its un-swung position and an even tick at its
\* un-swung position, and the un-swung positions of consecutive ticks are one
\* interval apart: the delay of a tick is not carried into a later tick.
C12_SwingDisplacement ==
  /\ SwungTick("patterns") =>
       lastEvent["patterns"].time =
         lastEvent["patterns"].grid +
           (IF lastEvent["patterns"].rep % 2 = 1
            THEN lastEvent["patterns"].interval \div 3 ELSE 0)
  /\ ( /\ SwungTick("patterns")
       /\ ConsecutiveTicks("patterns")
       /\ prevEvent["patterns"].swung
       /\ prevEvent["patterns"].bpm = lastEvent["patterns"].bpm ) =>
       lastEvent["patterns"].grid - prevEvent["patterns"].grid =
         SpecInterval(lastEvent["patterns"].bpm, "2")

\* a swung tick of a loop that has run with the settings it started with,
\* every callback on time, among the first ticks of the loop
SteadySwungTick(p) ==
  /\ SwungTick(p)
  /\ changesLeft = MaxSwingChanges
  /\ latesLeft = MaxLateCallbacks
  /\ lastEvent[p].k <= MaxTrackedTick

\* C13: in RandomMode (part_008) with swing enabled and subdivision "2" the
\* tick with even index 2j sounds at start + 2j * interval, even when every
\* callback runs on time.
C13_OnBeatNotDelayed ==
  (SteadySwungTick("random") /\ lastEvent["random"].k % 2 = 0) =>
    lastEvent["random"].since =
      lastEvent["random"].k * SpecInterval(lastEvent["random"].bpm, "2")

\* a tick of PatternsMode
PatternsTick ==
  /\ lastOp.op \in {"scheduleNote", "togglePlayback"}
  /\ "patterns" \in lastOp.played

\* C14: the swing delay of a tick of PatternsMode is interval/3 when the
\* subdivision is "2", swing is enabled and the tick index is odd, and 0 in
\* every other case.
C14_SwingDelayCases ==
  PatternsTick =>
    LET ev == lastEvent["patterns"]
    IN ev.delay = IF ev.sub = "2" /\ ev.swingEnabled /\ ev.rep % 2 = 1
                  THEN SpecInterval(ev.bpm, ev.sub) \div 3
                  ELSE 0

\* an odd tick with swing enabled at a subdivision other than "2", in a
\* loop whose tick before it was swung
C14_Witness ==
  /\ PatternsTick
  /\ lastEvent["patterns"].swingEnabled
  /\ lastEvent["patterns"].sub # "2"
  /\ lastEvent["patterns"].rep % 2 = 1
  /\ ~lastEvent["patterns"].first
  /\ prevEvent["patterns"].swung

\* one of the ticks 0..4 of a loop that has run at subdivision "2", bpm 60
\* and swing enabled since it started
ExampleTick(p) ==
  /\ SwungTick(p)
  /\ changesLeft = MaxSwingChanges
  /\ lastEvent[p].bpm = 60
  /\ lastEvent[p].k \in 0..4

\* C15, with the times of the example: at subdivision "2", bpm 60 and swing
\* enabled the ticks 0, 1, 2, 3, 4 sound 0, 0.5, 1.1667, 1.5, 2.1667 s after
\* the start of playback, every callback having run on time.
C15_ExampleTimes ==
  \A p \in RefPlayers :
    (ExampleTick(p) /\ latesLeft = MaxLateCallbacks) =>
      lastEvent[p].since =
        <<0, TicksPerSecond \div 2, (7 * TicksPerSecond) \div 6,
          (3 * TicksPerSecond) \div 2,
          (13 * TicksPerSecond) \div 6>>[lastEvent[p].k + 1]

\* C15, with the times of PatternsMode: at subdivision "2", bpm 60 and swing
\* enabled the interval is 0.5 s, the delay of an odd tick is 0.5/3 s, and
\* the ticks 0, 1, 2, 3, 4 are scheduled for 0, 0.6667, 1.0, 1.6667, 2.0 s
\* after the start of playback, where they sound when their callback has run
\* on time.
C15_PatternsExampleTimes ==
  ExampleTick("patterns") =>
    LET ev == lastEvent["patterns"]
        due == <<0, (2 * TicksPerSecond) \div 3, TicksPerSecond,
                 (5 * TicksPerSecond) \div 3, 2 * TicksPerSecond>>[ev.k + 1]
    IN /\ 2 * ev.interval = TicksPerSecond
       /\ ev.delay = IF ev.k % 2 = 1 THEN TicksPerSecond \div 6 ELSE 0
       /\ ev.off = ev.k * ev.interval
       /\ ev.off + ev.delay = due
       /\ ev.since >= due
       /\ latesLeft = MaxLateCallbacks => ev.since = due

\* tick 4 of such a loop of PatternsMode, sounding 2.0 s after the start
C15_Witness ==
  /\ ExampleTick("patterns")
  /\ lastEvent["patterns"].k = 4
  /\ prevEvent["patterns"].k = 3
  /\ lastEvent["patterns"].since = 2 * TicksPerSecond

PendingBeats == {t \in timers : t.kind = "playBeat"}

\* C16: the metronome loop is alive only while the toggle is on and the
\* current mode is playing: in every other state no playBeat callback is
\* pending and the timeout ref is null, and the handler that turns the
\* playback of the mode off leaves none pending.
C16_MetronomeOnlyWhilePlaying ==
  /\ ~(metronomeActive /\ currentMode \in Players
         /\ settings[currentMode].isPlaying) =>
       (PendingBeats = {} /\ metronomeIntervalRef = NoTimer)
  /\ Cardinality(PendingBeats) <= 1
  /\ lastOp.op = "playBeat" => PendingBeats # {}

\* playback turned off while the metronome was clicking: its callback is
\* cancelled
C16_Witness ==
  /\ lastOp.op = "togglePlayback"
  /\ metronomeActive
  /\ ~settings[currentMode].isPlaying
  /\ "metronome" \in lastOp.cancelled
  /\ \E o \in oscillators : o.engine = "metronome"

\* a click of the metronome
Click ==
  /\ "metronome" \in lastOp.played
  /\ lastEvent["metronome"].idx # -1

\* C17: a click on beat 1 or 3 of the bar (beat count mod 4 = 0 or 2) has a
\* higher pitch and a longer duration than a click on beat 2 or 4.
C17_AccentedBeats ==
  ( /\ Click
    /\ ~lastEvent["metronome"].first
    /\ prevEvent["metronome"].idx # -1 ) =>
    LET ev == lastEvent["metronome"]
        pv == prevEvent["metronome"]
    IN /\ (ev.idx % 2 = 0 /\ pv.idx % 2 = 1) =>
            (ev.frequency > pv.frequency /\ ev.duration > pv.duration)
       /\ (ev.idx % 2 = 1 /\ pv.idx % 2 = 0) =>
            (ev.frequency < pv.frequency /\ ev.duration < pv.duration)

\* two consecutive clicks of one metronome loop are 60/bpm apart, at the BPM
\* of the current mode, whatever its subdivision
C18_ClicksOneBeatApart ==
  ( /\ lastOp.op = "playBeat"
    /\ Click
    /\ ~lastEvent["metronome"].first
    /\ prevEvent["metronome"].idx # -1 ) =>
    /\ currentMode \in Players
    /\ lastEvent["metronome"].bpm = settings[currentMode].bpm
    /\ lastEvent["metronome"].time - prevEvent["metronome"].time =
         (60 * TicksPerSecond) \div settings[currentMode].bpm
    /\ lastEvent["metronome"].idx = (prevEvent["metronome"].idx + 1) % 4

\* a subdivision or swing change leaves the metronome loop as it was
C18_ChangeLeavesMetronome ==
  lastOp'.op \in {"updateSubdivision", "updateSwing"} =>
    /\ PendingBeats' = PendingBeats
    /\ metronomeIntervalRef' = metronomeIntervalRef
    /\ "metronome" \notin lastOp'.played
    /\ "metronome" \notin lastOp'.cancelled

\* C18: successive metronome clicks are 60/bpm apart at the BPM of the
\* current mode for every subdivision, and a change of the subdivision or of
\* swing leaves the interval, beat count, next-beat time and pending callback
\* of the metronome unchanged.
C18_QuarterNotePulse ==
  []C18_ClicksOneBeatApart /\ [][C18_ChangeLeavesMetronome]_vars

\* a click one beat after the one before it, the subdivision of the mode
\* having been changed while the metronome was clicking
C18_Witness ==
  /\ lastOp.op = "playBeat"
  /\ lastOp.prev = "updateSubdivision"
  /\ Click
  /\ ~lastEvent["metronome"].first
  /\ prevEvent["metronome"].idx # -1
  /\ settings[currentMode].subdivision # "1"

\* an operation of the engine called while there is no audio context changes
\* nothing: no error, no voice, the state of the engine as it was
C19_CallLeavesEngine ==
  (lastOp'.op \in EngineOperations \ {"stop"} /\ ~audioContext) =>
    /\ threw' = threw
    /\ oscillators' = oscillators
    /\ engineIsPlaying' = engineIsPlaying

\* C19: every AudioEngine operation called while no audio context exists
\* (playNote, createOscillator, createPianoSound, createClick,
\* crossfadeToWaveType, start) is a no-op: it throws nothing, produces no
\* sound and leaves the state of the engine unchanged.
C19_NoContextNoOp == [][C19_CallLeavesEngine]_vars

\* C20: a chord tone that cannot be resolved to a frequency is the only note
\* skipped: the callback that met it raises nothing, sounds the other tones
\* of the chord, and has its next callback pending, so the loop goes on.
C20_InvalidNoteSkipped ==
  \A p \in lastOp.unresolved :
    /\ ~threw[p]
    /\ Cardinality({o \in oscillators : o.engine = p /\ o.start >= 0})
         = ChordTones - 1
    /\ PendingCallbacks(p) # {}

\* a scheduling callback of player p has just run while p was playing
CallbackRanPlaying(p) ==
  /\ lastOp.op = "scheduleNote"
  /\ lastOp.p = p
  /\ currentMode = p
  /\ settings[p].isPlaying

\* C21: playback, once started, runs until it is stopped: every scheduling
\* callback that runs between startPlayback and the next stop leaves exactly
\* one next callback of its player pending.
C21_OneNextCallback ==
  \A p \in Players :
    CallbackRanPlaying(p) => Cardinality(PendingCallbacks(p)) = 1

\* C22: a cleanup timer of a replaced voice never deletes the tracker entry
\* of the voice that replaced it: the entry a cleanup timer removes is the
\* entry of the voice the timer was armed for, or the entry is gone already.
C22_CleanupRemovesOwnEntry ==
  audioEngine.lastCleanup.removed
    \in {NoVoice, audioEngine.lastCleanup.owner}

\* C23: a voice registered under a key whose entry holds a voice that has
\* not finished finds that voice faded or stopped first: no registration
\* overwrites an entry whose oscillators are left running to their end time.
C23_NoOverwriteOfRunningVoice == ~audioEngine.lastRegistration.running

\* the instants of the fade window [at, at + fade], 10 ms apart
FadeWindow(cf) == {cf.at + k * Ms(10) : k \in 0..(cf.fade \div Ms(10))}

NonIncreasingOver(env, cf) ==
  \A t \in FadeWindow(cf) :
    t + Ms(10) <= cf.at + cf.fade => ValueAt(env, t) >= ValueAt(env, t + Ms(10))

NonDecreasingOver(env, cf) ==
  \A t \in FadeWindow(cf) :
    t + Ms(10) <= cf.at + cf.fade => ValueAt(env, t) <= ValueAt(env, t + Ms(10))

\* C24: over the fade window of crossfadeToWaveType the gain of the old voice
\* is non-increasing and the gain of the new voice non-decreasing, and at
\* now + fadeDuration every oscillator of the old voice has been stopped.
C24_CrossfadeMonotone ==
  LET cf == audioEngine.lastCrossfade
  IN cf.new # NoVoice =>
       /\ NonDecreasingOver(VoiceOf(audioEngine, cf.new).gain, cf)
       /\ cf.old # NoVoice =>
            /\ NonIncreasingOver(VoiceOf(audioEngine, cf.old).gain, cf)
            /\ VoiceOf(audioEngine, cf.old).stop <= cf.at + cf.fade

\* a crossfade away from a voice that was still sounding, its gain above the floor
C24_Witness ==
  LET cf == audioEngine.lastCrossfade
  IN /\ lastOp.op = "crossfadeToWaveType"
     /\ cf.old # NoVoice
     /\ ValueAt(VoiceOf(audioEngine, cf.old).gain, cf.at) > 1
     /\ ValueAt(VoiceOf(audioEngine, cf.new).gain, cf.at + cf.fade) > 0

\* the scheduler has just run, at audioEngine.lastTick.at
SchedulerRan == lastOp.op = "tick" /\ audioEngine.isPlaying

\* the times from the first due event on, one beat apart, before the end of
\* the window
DueEvents(lt) ==
  {lt.from + k * lt.interval : k \in 0..(MaxAudioTime \div lt.interval + 1)}
    \cap ((lt.from)..(lt.at + lookaheadTime - 1))

\* C25: a scheduler tick run at time now schedules exactly the events whose
\* time is earlier than now + lookahead (0.1 s), one at a time in increasing
\* time order, nothing at or beyond the window, and when it returns
\* nextNoteTime >= now + lookahead.
C25_TickSchedulesWindow ==
  SchedulerRan =>
    LET lt == audioEngine.lastTick
    IN /\ {lt.scheduled[i] : i \in DOMAIN lt.scheduled} = DueEvents(lt)
       /\ Len(lt.scheduled) = Cardinality(DueEvents(lt))
       /\ \A i \in DOMAIN lt.scheduled :
            /\ lt.scheduled[i] < lt.at + lookaheadTime
            /\ i > 1 => lt.scheduled[i - 1] < lt.scheduled[i]
       /\ audioEngine.nextNoteTime >= lt.at + lookaheadTime

\* a late tick: it schedules several events, the first of them overdue
C25_Witness ==
  /\ SchedulerRan
  /\ Len(audioEngine.lastTick.scheduled) >= 2
  /\ audioEngine.lastTick.from < audioEngine.lastTick.at

\* C30: for every sequence of start() and stop() calls at most one interval
\* timer is alive in the timer worker, and after stop() the worker posts no
\* further 'tick'.
C30_OneWorkerInterval ==
  /\ Cardinality(audioEngine.intervals) <= 1
  /\ ~audioEngine.tickAfterStop

\* C26: within one player events are scheduled in time order, also across
\* live BPM, subdivision and swing changes and late callbacks: an event of
\* PatternsMode or RandomMode (part_008) never gets a timestamp less than or
\* equal to that of the event the player scheduled before it.
C26_TimeOrder ==
  \A p \in RefPlayers :
    (p \in lastOp.played /\ prevEvent[p].idx # -1) =>
      lastEvent[p].time > prevEvent[p].time

RandomPlayers == {"random", "randomV1"}

C27_GenerateStep ==
  \A p \in RandomPlayers :
    /\ (~settings[p].isPlaying /\ settings'[p].isPlaying) =>
         lastOp'.op = "togglePlayback"
    /\ (lastOp'.op = "generateRandomNotes" /\ lastOp'.p = p) =>
         (~settings[p].isPlaying /\ ~settings'[p].isPlaying)

\* C27: in Random mode generating notes never starts playback: isPlaying is
\* false after generateRandomNotes and becomes true only when the user
\* starts playback; and generateRandomNotes never runs while isPlaying is
\* true.
C27_GenerateNeverPlays == [][C27_GenerateStep]_vars

\* C28: in the players that restart on a tempo or subdivision change,
\* whenever isPlaying is false no restart timer and no scheduling callback of
\* the player is pending, and the step that led here scheduled no note of it.
C28_StoppedStaysStopped ==
  \A p \in RestartPlayers :
    ~settings[p].isPlaying =>
      /\ ~\E t \in timers :
            t.p = p /\ t.kind \in {"restartBpm", "restartSub", "scheduleNote"}
      /\ p \notin lastOp.played

\* C29: after the current mode changes, by a tab click (switchTab) or by a
\* shortcut key (onModeChange), no scheduling callback of the player of the
\* mode that was selected before is pending and that mode's isPlaying is
\* false.
C29_ModeChangeStopsOldMode ==
  (/\ lastOp.op \in {"switchTab", "onModeChange"}
   /\ lastOp.p \in Players
   /\ lastOp.p # currentMode) =>
     /\ PendingCallbacks(lastOp.p) = {}
     /\ ~settings[lastOp.p].isPlaying

====
